---------------------------- MODULE Spec2Model ----------------------------
(***************************************************************************)
(* BurstChainClient (hello_world_scripts/testnet_example.py): the REST     *)
(* client's request helper _send, its private-id variant, the domain       *)
(* operations built on them, and the demo's main() sequence of calls.      *)
(*                                                                         *)
(* Python values are records tagged by "kind"; a text (a response body) is *)
(* a sequence of JSON tokens; a path or URL is a sequence of the pieces    *)
(* its f-string concatenates.                                              *)
(***************************************************************************)
EXTENDS Integers, Sequences, FiniteSets, TLC

\* TLC keeps the fields of a record in the order their names first occur in the
\* module. They are named here once, sorted, and every record below is written
\* in that order, so that a record is never reordered after it was built.
FieldOrder ==
    [action |-> 1, addl_headers |-> 2, addr1 |-> 3, args |-> 4, asset |-> 5,
     asset_id |-> 6, asset_metadata |-> 7, attributes |-> 8, auth |-> 9,
     body |-> 10, city |-> 11, client |-> 12, code |-> 13, collection |-> 14,
     contract |-> 15, elems |-> 16, exc |-> 17, finalize |-> 18,
     first_asset_id |-> 19, first_hash |-> 20, headers |-> 21, id |-> 22,
     indexes |-> 23, items |-> 24, json |-> 25, kind |-> 26, level |-> 27,
     logged |-> 28, main |-> 29, map |-> 30, name |-> 31, new_owners |-> 32,
     new_signer_public_id |-> 33, ok |-> 34, op |-> 35, outcome |-> 36,
     owners |-> 37, parts |-> 38, path |-> 39, priv |-> 40, priv_id |-> 41,
     private_id |-> 42, privateid |-> 43, public_id |-> 44, rand |-> 45,
     reduce |-> 46, rest |-> 47, rootnode |-> 48, second_private_id |-> 49,
     second_public_id |-> 50, send |-> 51, server |-> 52, site |-> 53,
     smart_contract_metadata |-> 54, smart_contract_type |-> 55,
     state |-> 56, status_code |-> 57, str |-> 58, text |-> 59,
     tqlWhereClause |-> 60, url |-> 61, used |-> 62, value |-> 63, zip |-> 64]

\* likewise the header names, which are keys of mappings
HeaderNames ==
    <<"Accept", "Authorization", "Content-Accept", "Content-Type", "X-Trace">>

VARIABLES
    self,         \* the client object: [server, client]
    pc,           \* "idle" | "awaiting" | "exited" | "raised"
    op,           \* name of the operation invoked last
    privArgs,     \* arguments _send_with_priv_id received (used = FALSE: not called)
    sendArgs,     \* arguments _send received
    request,      \* keyword arguments of the last self._session.request call
    response,     \* the last response of the transport
    log,          \* the logger.error records emitted so far
    ret,          \* the value the last operation returned to its caller
    exc,          \* the exception that left the program uncaught ("" if none)
    invocations,  \* number of operations invoked so far
    returns,      \* number of operations that returned to their caller
    requests,     \* number of HTTP requests issued so far
    main          \* main()'s position and local variables

vars == <<self, pc, op, privArgs, sendArgs, request, response, log, ret, exc,
          invocations, returns, requests, main>>

-----------------------------------------------------------------------------
(* Bounds                                                                  *)

MaxCalls == 2

-----------------------------------------------------------------------------
(* Python values                                                           *)

None == [kind |-> "None"]
Str(s) == [kind |-> "str", str |-> s]
Dict(f) == [items |-> f, kind |-> "dict"]
List(q) == [elems |-> q, kind |-> "list"]
Tuple(q) == [elems |-> q, kind |-> "tuple"]

EmptyMap == <<>>

\* bool(v): None, '', {}, [] and () are false
Truthy(v) ==
    CASE v.kind = "None" -> FALSE
      [] v.kind = "str" -> v.str # ""
      [] v.kind = "dict" -> DOMAIN v.items # {}
      [] OTHER -> Len(v.elems) > 0

\* the text an f-string puts for v
Format(v) == IF v.kind = "str" THEN v.str ELSE "None"

\* d.update(u) on mappings
DictUpdate(d, u) == u @@ d

\* v.get(key): only a dict has the method
HasGet(v) == v.kind = "dict"
Get(v, key) == IF key \in DOMAIN v.items THEN v.items[key] ELSE None

-----------------------------------------------------------------------------
(* json.loads on a token sequence: null, strings, objects and arrays       *)

Quote == "\""
Punct == {"{", "}", "[", "]", ":", ",", Quote, "null"}

Fail == [ok |-> FALSE]
Ok(v, i) == [ok |-> TRUE, rest |-> i, value |-> v]

ParseString(t, i) ==
    IF i + 1 <= Len(t) /\ t[i] = Quote /\ t[i + 1] = Quote
    THEN Ok(Str(""), i + 2)
    ELSE IF i + 2 <= Len(t) /\ t[i] = Quote /\ t[i + 1] \notin Punct /\ t[i + 2] = Quote
    THEN Ok(Str(t[i + 1]), i + 3)
    ELSE Fail

RECURSIVE ParseValue(_, _), ParseMembers(_, _, _), ParseElements(_, _, _)

ParseValue(t, i) ==
    IF i > Len(t) THEN Fail
    ELSE IF t[i] = "null" THEN Ok(None, i + 1)
    ELSE IF t[i] = Quote THEN ParseString(t, i)
    ELSE IF t[i] = "{"
    THEN IF i + 1 <= Len(t) /\ t[i + 1] = "}"
         THEN Ok(Dict(EmptyMap), i + 2)
         ELSE ParseMembers(t, i + 1, EmptyMap)
    ELSE IF t[i] = "["
    THEN IF i + 1 <= Len(t) /\ t[i + 1] = "]"
         THEN Ok(List(<<>>), i + 2)
         ELSE ParseElements(t, i + 1, <<>>)
    ELSE Fail

\* members of an object; a repeated key keeps its last value
ParseMembers(t, i, acc) ==
    LET k == ParseString(t, i) IN
    IF ~k.ok \/ k.rest > Len(t) \/ t[k.rest] # ":" THEN Fail
    ELSE LET v == ParseValue(t, k.rest + 1) IN
         IF ~v.ok \/ v.rest > Len(t) THEN Fail
         ELSE LET acc2 == (k.value.str :> v.value) @@ acc IN
              IF t[v.rest] = "," THEN ParseMembers(t, v.rest + 1, acc2)
              ELSE IF t[v.rest] = "}" THEN Ok(Dict(acc2), v.rest + 1)
              ELSE Fail

ParseElements(t, i, acc) ==
    LET v == ParseValue(t, i) IN
    IF ~v.ok \/ v.rest > Len(t) THEN Fail
    ELSE LET acc2 == Append(acc, v.value) IN
         IF t[v.rest] = "," THEN ParseElements(t, v.rest + 1, acc2)
         ELSE IF t[v.rest] = "]" THEN Ok(List(acc2), v.rest + 1)
         ELSE Fail

\* json.loads(text): a value, or JSONDecodeError
JsonValid(text) ==
    LET r == ParseValue(text, 1) IN r.ok /\ r.rest = Len(text) + 1
JsonLoads(text) == ParseValue(text, 1).value


-----------------------------------------------------------------------------
(* BurstChainClient._send                                                  *)

StatusOK == 200

JsonType == <<"application/json">>

\* the headers literal _send starts from
BaseHeaders == ("Content-Accept" :> JsonType) @@ ("Content-Type" :> JsonType)

\* headers = {...}; if addl_headers: headers.update(addl_headers)
send_headers(addl_headers) ==
    IF Truthy(addl_headers)
    THEN DictUpdate(BaseHeaders, addl_headers.items)
    ELSE BaseHeaders

\* the keyword arguments of self._session.request(...)
send_request(a) ==
    [action  |-> a.action,
     auth    |-> a.auth,
     headers |-> send_headers(a.addl_headers),
     json    |-> a.body,
     url     |-> <<self.server>> \o a.path]

\* logger.error(f'Call for {path} failed with code {status_code} and response of {text}')
Diagnostic(path, resp) ==
    [code |-> resp.status_code, level |-> "ERROR", path |-> path, text |-> resp.text]

Return(v) == [exc |-> "", logged |-> <<>>, outcome |-> "return", value |-> v]
Exit(records) == [exc |-> "SystemExit", logged |-> records, outcome |-> "exit", value |-> None]
Raise(e) == [exc |-> e, logged |-> <<>>, outcome |-> "raise", value |-> None]

\* mutant: the failure is logged but exit(1) is missing
send_result_no_exit(path, resp) ==
    IF resp.status_code # StatusOK
    THEN [Return(None) EXCEPT !.logged = <<Diagnostic(path, resp)>>]
    ELSE IF resp.text # <<>>
    THEN IF JsonValid(resp.text) THEN Return(JsonLoads(resp.text))
         ELSE Raise("JSONDecodeError")
    ELSE Return(None)

\* mutant: only server errors are fatal, any other status counts as success
send_result_5xx(path, resp) ==
    IF resp.status_code >= 500
    THEN Exit(<<Diagnostic(path, resp)>>)
    ELSE IF resp.text # <<>>
    THEN IF JsonValid(resp.text) THEN Return(JsonLoads(resp.text))
         ELSE Raise("JSONDecodeError")
    ELSE Return(None)

\* mutant: the body is decoded without the test for an empty text
send_result_always_loads(path, resp) ==
    IF resp.status_code # StatusOK
    THEN Exit(<<Diagnostic(path, resp)>>)
    ELSE IF JsonValid(resp.text) THEN Return(JsonLoads(resp.text))
    ELSE Raise("JSONDecodeError")

\* _send after the transport handed back resp
send_result(path, resp) ==
    IF resp.status_code # StatusOK
    THEN Exit(<<Diagnostic(path, resp)>>)
    ELSE IF resp.text # <<>>
    THEN IF JsonValid(resp.text) THEN Return(JsonLoads(resp.text))
         ELSE Raise("JSONDecodeError")
    ELSE Return(None)

\* the arguments of a direct call of _send; no _send_with_priv_id involved
NoPriv == [used |-> FALSE]

send(action, path, addl_headers, body, auth) ==
    [priv |-> NoPriv,
     send |-> [action |-> action, addl_headers |-> addl_headers, auth |-> auth,
               body |-> body, path |-> path]]

-----------------------------------------------------------------------------
(* BurstChainClient._send_with_priv_id                                     *)

\* mutant: the header is built without the test for a missing private id
priv_id_headers_always(priv_id) ==
    Dict("Authorization" :> <<"ID ", Format(priv_id)>>)

priv_id_headers(priv_id) ==
    IF Truthy(priv_id)
    THEN Dict("Authorization" :> <<"ID ", Format(priv_id)>>)
    ELSE None

send_with_priv_id(action, path, priv_id, body) ==
    [priv |-> [action |-> action, body |-> body, path |-> path,
               priv_id |-> priv_id, used |-> TRUE],
     send |-> send(action, path, priv_id_headers(priv_id), body, None).send]

-----------------------------------------------------------------------------
(* Domain operations: the call each makes, and what it returns from the    *)
(* result r of that call                                                   *)

\* return resp.get(field)
GetField(r, field) ==
    IF r.outcome # "return" THEN r
    ELSE IF HasGet(r.value) THEN Return(Get(r.value, field))
    ELSE Raise("AttributeError")

ChainPath(chain_name, tail) ==
    <<"/api/burstchain/", self.client, "/", Format(chain_name)>> \o tail

put_metadata(dictionary, username, password) ==
    send("PUT", <<"/api/metadata/dictionary">>, None, dictionary,
         Tuple(<<username, password>>))
put_metadata_result(r) == r

get_private_id ==
    send("GET", <<"/api/burstchain/id/private">>, None, None, None)
get_private_id_result(r) == GetField(r, "private_id")

get_public_id(private_id) ==
    send_with_priv_id("GET", <<"/api/burstchain/id/public">>, private_id, None)
get_public_id_result(r) == GetField(r, "public_id")

create_asset(private_id, chain_name, owners, asset, asset_metadata) ==
    send_with_priv_id("POST", ChainPath(chain_name, <<"/asset">>), private_id,
        Dict([asset |-> asset, asset_metadata |-> asset_metadata, owners |-> owners]))
\* mutant: the whole response is returned instead of its asset_id
create_asset_result_whole(r) == r
create_asset_result(r) == GetField(r, "asset_id")

get_asset_status(private_id, chain_name, asset_id) ==
    send_with_priv_id("GET", ChainPath(chain_name, <<"/", Format(asset_id), "/status">>),
        private_id, None)
get_asset_status_result(r) == GetField(r, "message")

get_asset_by_id(private_id, chain_name, asset_id) ==
    send_with_priv_id("GET", ChainPath(chain_name, <<"/", Format(asset_id), "/latest">>),
        private_id, None)
get_asset_by_id_result(r) == r

get_asset_by_hash(private_id, chain_name, hash_value) ==
    send_with_priv_id("GET", ChainPath(chain_name, <<"/", Format(hash_value)>>),
        private_id, None)
get_asset_by_hash_result(r) == r

update_asset(private_id, chain_name, asset_id, asset, asset_metadata) ==
    send_with_priv_id("PUT", ChainPath(chain_name, <<"/asset">>), private_id,
        Dict([asset |-> asset, asset_id |-> asset_id, asset_metadata |-> asset_metadata]))
update_asset_result(r) == GetField(r, "asset_id")

transfer_asset(private_id, chain_name, asset_id, owners, new_owners, new_signer_public_id) ==
    send_with_priv_id("POST", ChainPath(chain_name, <<"/transfer">>), private_id,
        Dict([asset_id |-> asset_id, new_owners |-> new_owners,
              new_signer_public_id |-> new_signer_public_id, owners |-> owners]))
transfer_asset_result(r) == GetField(r, "asset_id")

query(private_id, chain_name, tql) ==
    send_with_priv_id("POST", ChainPath(chain_name, <<"/query">>), private_id,
        Dict([tqlWhereClause |-> tql]))
query_result(r) == GetField(r, "assets")

map_reduce(private_id, chain_name, map_func, reduce_func, finalize_func, tql) ==
    send_with_priv_id("POST", ChainPath(chain_name, <<"/mapreduce/query">>), private_id,
        Dict([finalize |-> finalize_func, map |-> map_func, reduce |-> reduce_func,
              tqlWhereClause |-> tql]))
map_reduce_result(r) == GetField(r, "records")

create_consent(private_id, chain_name, owners, contract_name, contract) ==
    send_with_priv_id("POST", ChainPath(chain_name, <<"/smartcontract">>), private_id,
        Dict([contract |-> contract, name |-> contract_name, owners |-> owners,
              smart_contract_metadata |-> Dict("loaded by" :> Str("hello world demo")),
              smart_contract_type |-> Str("consent")]))
create_consent_result(r) == GetField(r, "asset_id")

\* what operation o returns once _send, called with path, got resp
Result(o, path, resp) ==
    LET r == send_result(path, resp) IN
    CASE o = "put_metadata" -> put_metadata_result(r)
      [] o = "get_private_id" -> get_private_id_result(r)
      [] o = "get_public_id" -> get_public_id_result(r)
      [] o = "create_asset" -> create_asset_result(r)
      [] o = "get_asset_status" -> get_asset_status_result(r)
      [] o = "get_asset_by_id" -> get_asset_by_id_result(r)
      [] o = "get_asset_by_hash" -> get_asset_by_hash_result(r)
      [] o = "update_asset" -> update_asset_result(r)
      [] o = "transfer_asset" -> transfer_asset_result(r)
      [] o = "query" -> query_result(r)
      [] o = "map_reduce" -> map_reduce_result(r)
      [] o = "create_consent" -> create_consent_result(r)
      [] OTHER -> r

-----------------------------------------------------------------------------
(* The transport (requests.Session.request) and the remote service         *)

S(x) == <<Quote, x, Quote>>
Obj1(k, v) == <<"{">> \o S(k) \o <<":">> \o v \o <<"}">>
Obj2(k1, v1, k2, v2) ==
    <<"{">> \o S(k1) \o <<":">> \o v1 \o <<",">> \o S(k2) \o <<":">> \o v2 \o <<"}">>

PrivTokens == {"K1", "K2"}
PubTokens == {"P1", "P2"}

\* response.text: empty, JSON documents, and texts that are not JSON
Texts ==
    {<<>>, <<"null">>, S("boom"), <<"boom">>, <<"{", "}">>, <<"[", "]">>,
     Obj1("asset_id", S("A1")), Obj1("asset_id", <<"null">>),
     Obj2("asset_id", S("A1"), "asset_id", S("A2")),
     Obj2("message", S("ok"), "hash", S("H1")),
     Obj1("assets", <<"[">> \o Obj1("id", S("1234")) \o <<",">> \o S("x") \o <<"]">>),
     Obj1("records", <<"[", "]">>),
     <<"{">> \o S("asset_id"), <<"[">> \o S("x") \o <<",", "]">>}
    \cup {Obj1("private_id", S(k)) : k \in PrivTokens}
    \cup {Obj1("public_id", S(k)) : k \in PubTokens}

\* bodies sent along with a status other than 200
ErrorTexts == {<<>>, S("boom"), Obj1("asset_id", S("A1"))}

ErrorStatuses == {201, 500}

Responses ==
    [status_code : {StatusOK}, text : Texts]
        \cup [status_code : ErrorStatuses, text : ErrorTexts]

NoResponse == [status_code |-> 0, text |-> <<>>]

\* exceptions self._session.request raises instead of returning a response
TransportErrors == {"ConnectionError", "Timeout"}

-----------------------------------------------------------------------------
(* main(): call sites in order, its local variables, and what it does with *)
(* each returned value                                                     *)

\* a str an f-string builds from pieces
FStr(parts) == [kind |-> "fstr", parts |-> parts]

LastSite == 19

\* the tutorial step (STEP 1 .. STEP 14) each call site of main() belongs to
StepOf(site) ==
    CASE site \in 1..9 -> site
      [] site \in 10..14 -> 10
      [] site \in 15..17 -> site - 4
      [] OTHER -> 14

NoMain ==
    [first_asset_id |-> None, first_hash |-> None, private_id |-> None,
     privateid |-> None, public_id |-> None, rand |-> "",
     second_private_id |-> None, second_public_id |-> None, site |-> 0]

\* opts.privateid: --privateid is optional
PrivateIdOpts == {None, Str("K0")}
\* random.randint(1000, 10000), formatted
RandInputs == {"1000"}

username == Str("admin")
password == Str("secret")

dictionary ==
    Dict([collection |-> Str("address"),
          indexes |-> List(<<Dict([attributes |-> List(<<Str("id")>>)])>>),
          rootnode |-> Dict([attributes |->
              List(<<Dict([name |-> Str("id")]), Dict([name |-> Str("addr1")]),
                     Dict([name |-> Str("addr2")]), Dict([name |-> Str("city")]),
                     Dict([name |-> Str("state")]), Dict([name |-> Str("zip")])>>)])])

collection == Get(dictionary, "collection")

\* the asset dict; asset['state'] = 'CO' from STEP 8 on
asset(m) ==
    Dict([addr1 |-> Str("123 Main St"), city |-> Str("Nowhere"), id |-> Str(m.rand),
          state |-> IF m.site < 8 THEN Str("XX") ELSE Str("CO"),
          zip |-> Str("12345-0000")])

asset_metadata == Dict("loaded by" :> Str("hello world demo"))

tql1 == Str("WHERE asset.state = 'CO'")
tql2 == Str("SELECT asset.id FROM address WHERE asset.state = 'CO'")
map_func == Str("function() { emit(this.asset.state, this) }")
reduce_func == Str("function(k, v) { return v[0] }")
mr_query == Str("WHERE asset.state = 'CO' ORDER BY asset.id LIMIT 100")

consent(m) ==
    FStr(<<"consents ", Format(m.public_id), " for ", Format(collection), " ",
           "when asset.state = 'CO' ", "until Date('", "end_date", "')">>)

Call(o, args) == [args |-> args, op |-> o]

\* the client call main() makes at its current site
main_call(m) ==
    CASE m.site = 1 -> Call("put_metadata", put_metadata(dictionary, username, password))
      [] m.site = 2 -> Call("get_private_id", get_private_id)
      [] m.site = 3 -> Call("get_public_id", get_public_id(m.private_id))
      [] m.site = 4 ->
            Call("create_asset", create_asset(m.private_id, collection,
                 List(<<m.public_id>>), asset(m), asset_metadata))
      [] m.site = 5 ->
            Call("get_asset_status", get_asset_status(m.private_id, collection, m.first_asset_id))
      [] m.site \in {6, 9, 13, 19} ->
            Call("get_asset_by_id", get_asset_by_id(m.private_id, collection, m.first_asset_id))
      [] m.site = 7 ->
            Call("get_asset_by_hash", get_asset_by_hash(m.private_id, collection, m.first_hash))
      [] m.site = 8 ->
            Call("update_asset", update_asset(m.private_id, collection, m.first_asset_id,
                 asset(m), None))
      [] m.site = 10 -> Call("get_private_id", get_private_id)
      [] m.site = 11 -> Call("get_public_id", get_public_id(m.second_private_id))
      [] m.site = 12 ->
            Call("transfer_asset", transfer_asset(m.private_id, collection, m.first_asset_id,
                 List(<<m.public_id>>), List(<<m.second_public_id>>), m.second_public_id))
      [] m.site = 14 ->
            Call("get_asset_by_id", get_asset_by_id(m.second_private_id, collection,
                 m.first_asset_id))
      [] m.site = 15 -> Call("query", query(m.second_private_id, collection, tql1))
      [] m.site = 16 -> Call("query", query(m.second_private_id, collection, tql2))
      [] m.site = 17 ->
            Call("map_reduce", map_reduce(m.second_private_id, collection, map_func,
                 reduce_func, None, mr_query))
      [] m.site = 18 ->
            Call("create_consent", create_consent(m.second_private_id, collection,
                 List(<<m.second_private_id>>), Str("first consent"), consent(m)))

Goes(m) == [exc |-> "", main |-> m]
Dies(m, e) == [exc |-> e, main |-> m]

\* STEP 2: an existing private id given on the command line replaces the call
after_put_metadata(m) ==
    IF Truthy(m.privateid)
    THEN [m EXCEPT !.private_id = m.privateid, !.site = 3]
    ELSE [m EXCEPT !.site = 2]

\* main() after the call at its current site returned v, up to its next call
main_after(m, v) ==
    CASE m.site = 0 -> Goes(m)
      [] m.site = 1 ->
            IF HasGet(v) THEN Goes(after_put_metadata(m)) ELSE Dies(m, "AttributeError")
      [] m.site = 2 -> Goes([m EXCEPT !.private_id = v, !.site = 3])
      [] m.site = 3 -> Goes([m EXCEPT !.public_id = v, !.site = 4])
      [] m.site = 4 -> Goes([m EXCEPT !.first_asset_id = v, !.site = 5])
      [] m.site = 6 ->
            IF HasGet(v) THEN Goes([m EXCEPT !.first_hash = Get(v, "hash"), !.site = 7])
            ELSE Dies(m, "AttributeError")
      [] m.site = 10 -> Goes([m EXCEPT !.second_private_id = v, !.site = 11])
      [] m.site = 11 -> Goes([m EXCEPT !.second_public_id = v, !.site = 12])
      [] OTHER -> Goes([m EXCEPT !.site = m.site + 1])

-----------------------------------------------------------------------------
(* Actions                                                                 *)

Servers == {"https://testnet.burstiq.com"}
Clients == {"acme", "demo"}

Init ==
    /\ self \in [client : Clients, server : Servers]
    /\ pc = "idle"
    /\ op = ""
    /\ privArgs = NoPriv
    /\ sendArgs = send("", <<>>, None, None, None).send
    /\ request = [action |-> "", auth |-> None, headers |-> EmptyMap, json |-> None,
                  url |-> <<>>]
    /\ response = NoResponse
    /\ log = <<>>
    /\ ret = None
    /\ exc = ""
    /\ invocations = 0
    /\ returns = 0
    /\ requests = 0
    /\ main = NoMain

\* operation o is called and runs up to self._session.request(...)
Issue(o, d) ==
    /\ pc = "idle"
    /\ pc' = "awaiting"
    /\ op' = o
    /\ privArgs' = d.priv
    /\ sendArgs' = d.send
    /\ request' = send_request(d.send)
    /\ requests' = requests + 1
    /\ invocations' = invocations + 1
    /\ response' = NoResponse
    /\ ret' = None
    /\ UNCHANGED <<self, log, exc, returns, main>>

\* a caller of the client invokes one of its operations
Invoke(o, d) ==
    /\ main.site = 0
    /\ invocations < MaxCalls
    /\ Issue(o, d)

\* _send, the operation and its caller go on with the response resp
Complete(resp) ==
    LET r == Result(op, sendArgs.path, resp)
        c == main_after(main, r.value)
    IN  /\ response' = resp
        /\ log' = log \o r.logged
        /\ ret' = r.value
        /\ returns' = IF r.outcome = "return" THEN returns + 1 ELSE returns
        /\ exc' = IF r.outcome = "return" THEN c.exc ELSE r.exc
        /\ pc' = CASE r.outcome = "exit" -> "exited"
                   [] r.outcome = "raise" -> "raised"
                   [] OTHER -> IF c.exc # "" THEN "raised" ELSE "idle"
        /\ main' = IF r.outcome = "return" THEN c.main ELSE main
        /\ UNCHANGED <<self, op, privArgs, sendArgs, request, invocations, requests>>

\* mutant: a first response other than 200 makes _send issue the request again
RespondRetry ==
    /\ pc = "awaiting"
    /\ \E resp \in Responses :
         IF resp.status_code # StatusOK /\ requests = invocations
         THEN /\ requests' = requests + 1
              /\ UNCHANGED <<self, pc, op, privArgs, sendArgs, request, response, log,
                             ret, exc, invocations, returns, main>>
         ELSE Complete(resp)

\* the transport returns a response
Respond ==
    /\ pc = "awaiting"
    /\ \E resp \in Responses : Complete(resp)

\* mutant: _send catches the transport's exception, reports it and exits
TransportRaiseReported ==
    /\ pc = "awaiting"
    /\ \E e \in TransportErrors :
         /\ exc' = e
         /\ pc' = "exited"
         /\ log' = Append(log, [code |-> 0, level |-> "ERROR", path |-> sendArgs.path,
                                text |-> <<e>>])
    /\ UNCHANGED <<self, op, privArgs, sendArgs, request, response, ret,
                   invocations, returns, requests, main>>

\* the transport raises; nothing in the program catches it
TransportRaise ==
    /\ pc = "awaiting"
    /\ \E e \in TransportErrors :
         /\ exc' = e
         /\ pc' = "raised"
    /\ UNCHANGED <<self, op, privArgs, sendArgs, request, response, log, ret,
                   invocations, returns, requests, main>>

Methods == {"GET", "POST", "PUT"}
PathInputs == {<<"/api/x">>}
HeaderInputs ==
    {None, Dict(EmptyMap),
     Dict("Accept" :> <<"text/plain">>),
     Dict("Content-Type" :> <<"text/xml">>),
     Dict(("Accept" :> JsonType) @@ ("X-Trace" :> <<"1">>)),
     Dict("Authorization" :> <<"ID ", "K1">>)}
BodyInputs == {None, Dict([collection |-> Str("address")])}
AuthInputs == {None, Tuple(<<Str("admin"), Str("secret")>>)}
PrivIdInputs == {None, Str(""), Str("K1")}
ChainInputs == {Str("address")}
IdInputs == {None, Str("A1")}
OwnerInputs == {List(<<Str("P1")>>), List(<<Str("P1"), Str("P2")>>)}
AssetInputs == {Dict([id |-> Str("1234"), state |-> Str("XX")])}
MetaInputs == {None, Dict("loaded by" :> Str("hello world demo"))}
TextInputs == {Str("WHERE asset.state = 'CO'")}

CallSend ==
    \E a \in Methods, p \in PathInputs, h \in HeaderInputs, b \in BodyInputs,
       u \in AuthInputs :
        Invoke("_send", send(a, p, h, b, u))

CallSendWithPrivId ==
    \E a \in Methods, p \in PathInputs, k \in PrivIdInputs, b \in BodyInputs :
        Invoke("_send_with_priv_id", send_with_priv_id(a, p, k, b))

CallPutMetadata ==
    \E b \in BodyInputs, u \in AuthInputs \ {None} :
        Invoke("put_metadata", put_metadata(b, u.elems[1], u.elems[2]))

CallGetPrivateId == Invoke("get_private_id", get_private_id)

CallGetPublicId ==
    \E k \in PrivIdInputs : Invoke("get_public_id", get_public_id(k))

CallCreateAsset ==
    \E k \in PrivIdInputs, c \in ChainInputs, o \in OwnerInputs, a \in AssetInputs,
       m \in MetaInputs :
        Invoke("create_asset", create_asset(k, c, o, a, m))

CallGetAssetStatus ==
    \E k \in PrivIdInputs, c \in ChainInputs, i \in IdInputs :
        Invoke("get_asset_status", get_asset_status(k, c, i))

CallGetAssetById ==
    \E k \in PrivIdInputs, c \in ChainInputs, i \in IdInputs :
        Invoke("get_asset_by_id", get_asset_by_id(k, c, i))

CallGetAssetByHash ==
    \E k \in PrivIdInputs, c \in ChainInputs, i \in IdInputs :
        Invoke("get_asset_by_hash", get_asset_by_hash(k, c, i))

CallUpdateAsset ==
    \E k \in PrivIdInputs, c \in ChainInputs, i \in IdInputs, a \in AssetInputs,
       m \in MetaInputs :
        Invoke("update_asset", update_asset(k, c, i, a, m))

CallTransferAsset ==
    \E k \in PrivIdInputs, c \in ChainInputs, i \in IdInputs, o \in OwnerInputs,
       n \in OwnerInputs :
        Invoke("transfer_asset", transfer_asset(k, c, i, o, n, n.elems[1]))

CallQuery ==
    \E k \in PrivIdInputs, c \in ChainInputs, t \in TextInputs :
        Invoke("query", query(k, c, t))

CallMapReduce ==
    \E k \in PrivIdInputs, c \in ChainInputs, t \in TextInputs, f \in {None} \cup TextInputs :
        Invoke("map_reduce", map_reduce(k, c, Str("function() { emit(this.asset.state, this) }"),
                                        Str("function(k, v) { return v[0] }"), f, t))

CallCreateConsent ==
    \E k \in PrivIdInputs, c \in ChainInputs, o \in OwnerInputs, t \in TextInputs :
        Invoke("create_consent", create_consent(k, c, o, Str("first consent"), t))

Next ==
    \/ CallSend
    \/ CallSendWithPrivId
    \/ CallPutMetadata
    \/ CallGetPrivateId
    \/ CallGetPublicId
    \/ CallCreateAsset
    \/ CallGetAssetStatus
    \/ CallGetAssetById
    \/ CallGetAssetByHash
    \/ CallUpdateAsset
    \/ CallTransferAsset
    \/ CallQuery
    \/ CallMapReduce
    \/ CallCreateConsent
    \/ Respond
    \/ TransportRaise

Spec == Init /\ [][Next]_vars

\* main() runs from the start: the demo
InitDemo ==
    /\ self \in [client : {"acme"}, server : Servers]
    /\ pc = "idle"
    /\ op = ""
    /\ privArgs = NoPriv
    /\ sendArgs = send("", <<>>, None, None, None).send
    /\ request = [action |-> "", auth |-> None, headers |-> EmptyMap, json |-> None,
                  url |-> <<>>]
    /\ response = NoResponse
    /\ log = <<>>
    /\ ret = None
    /\ exc = ""
    /\ invocations = 0
    /\ returns = 0
    /\ requests = 0
    /\ \E k \in PrivateIdOpts, n \in RandInputs :
         main = [NoMain EXCEPT !.site = 1, !.privateid = k, !.rand = n]

\* main() makes the call of its current site
MainCall ==
    /\ main.site \in 1..LastSite
    /\ Issue(main_call(main).op, main_call(main).args)

NextDemo ==
    \/ MainCall
    \/ Respond
    \/ TransportRaise

SpecDemo == InitDemo /\ [][NextDemo]_vars

-----------------------------------------------------------------------------
(* Properties                                                              *)

DomainOps ==
    {"put_metadata", "get_private_id", "get_public_id", "create_asset",
     "get_asset_status", "get_asset_by_id", "get_asset_by_hash", "update_asset",
     "transfer_asset", "query", "map_reduce", "create_consent"}

WholeOps == {"put_metadata", "get_asset_by_id", "get_asset_by_hash"}

\* the "Extracts" column of the operation table
FieldOf(o) ==
    CASE o = "get_private_id" -> "private_id"
      [] o = "get_public_id" -> "public_id"
      [] o \in {"create_asset", "update_asset", "transfer_asset", "create_consent"} -> "asset_id"
      [] o = "get_asset_status" -> "message"
      [] o = "query" -> "assets"
      [] o = "map_reduce" -> "records"

\* names of the extra headers the last call of _send was given
AddlNames ==
    IF Truthy(sendArgs.addl_headers) THEN DOMAIN sendArgs.addl_headers.items ELSE {}

Answered == response.status_code # 0
Failed == response.status_code \notin {0, StatusOK}

\* C1: every request _send issues carries a Content-Type and an Accept header,
\* each application/json unless an extra header of the same name overrides it,
\* and carries no header besides these two and the extra headers.
C1_JsonHeaders ==
    requests > 0 =>
        /\ DOMAIN request.headers = {"Content-Type", "Accept"} \cup AddlNames
        /\ \A n \in {"Content-Type", "Accept"} :
              request.headers[n] =
                  IF n \in AddlNames THEN sendArgs.addl_headers.items[n] ELSE JsonType

\* C2: a response with a status other than 200 is reported exactly once, with
\* the path, the status code and the response text; the process has exited, no
\* value was returned to the caller, and the exited process takes no further step.
C2_FatalOnNon200 ==
    /\ [](Failed =>
            /\ pc = "exited"
            /\ log = <<[code |-> response.status_code, level |-> "ERROR",
                        path |-> sendArgs.path, text |-> response.text]>>
            /\ returns = invocations - 1)
    /\ [][pc # "exited"]_vars

C2_Witness ==
    /\ pc = "exited"
    /\ response = [status_code |-> 500, text |-> S("boom")]
    /\ Len(log) = 1
    /\ invocations = 2

\* C3: _send given a 200 response returns None, without an error, when the body
\* is empty, and the decoded JSON document when the body is a JSON text.
C3_ReturnsDecodedBody ==
    (op = "_send" /\ response.status_code = StatusOK) =>
        /\ response.text = <<>> =>
              (pc = "idle" /\ exc = "" /\ ret = None /\ returns = invocations)
        /\ (response.text # <<>> /\ JsonValid(response.text)) =>
              (pc = "idle" /\ exc = "" /\ ret = JsonLoads(response.text)
               /\ returns = invocations)
        /\ response.text = Obj1("asset_id", S("A1")) =>
              ret = Dict([asset_id |-> Str("A1")])
        /\ response.text = <<"[", "]">> => ret = List(<<>>)

C3_Witness ==
    /\ op = "_send"
    /\ pc = "idle"
    /\ response = [status_code |-> StatusOK, text |-> <<>>]
    /\ ret = None
    /\ returns = 1

\* C4: _send_with_priv_id puts Authorization: ID <token> on the request when
\* the private id is non-empty and no Authorization header otherwise, attaches
\* no basic-auth credential, and hands method, path and body to _send unchanged.
C4_PrivateIdHeader ==
    privArgs.used =>
        /\ Truthy(privArgs.priv_id) =>
              /\ "Authorization" \in DOMAIN request.headers
              /\ request.headers["Authorization"] = <<"ID ", privArgs.priv_id.str>>
        /\ ~Truthy(privArgs.priv_id) => "Authorization" \notin DOMAIN request.headers
        /\ request.auth = None
        /\ sendArgs.auth = None
        /\ sendArgs.action = privArgs.action /\ request.action = privArgs.action
        /\ sendArgs.path = privArgs.path /\ request.url = <<self.server>> \o privArgs.path
        /\ sendArgs.body = privArgs.body /\ request.json = privArgs.body

C4_Witness ==
    /\ privArgs.used
    /\ privArgs.priv_id = Str("K1")
    /\ request.headers["Authorization"] = <<"ID ", "K1">>
    /\ pc = "awaiting"

\* C5: a domain operation given a 200 response whose body is a JSON object
\* returns what the operation table extracts: the named field (None when the
\* object lacks it), or the whole decoded object.
C5_Extracts ==
    (/\ op \in DomainOps
     /\ main.site = 0
     /\ response.status_code = StatusOK
     /\ response.text # <<>>
     /\ JsonValid(response.text)
     /\ JsonLoads(response.text).kind = "dict") =>
        /\ pc = "idle" /\ exc = "" /\ returns = invocations
        /\ ret = IF op \in WholeOps THEN JsonLoads(response.text)
                 ELSE Get(JsonLoads(response.text), FieldOf(op))
        /\ (op = "create_asset" /\ response.text = Obj1("asset_id", S("A1"))) =>
              ret = Str("A1")

C5_Witness ==
    /\ op = "create_asset"
    /\ response = [status_code |-> StatusOK, text |-> Obj1("asset_id", S("A1"))]
    /\ ret = Str("A1")
    /\ pc = "idle"

\* C6: every invocation issues exactly one HTTP request, whatever the response:
\* at all times as many requests were issued as operations were invoked.
C6_OneRequestPerInvocation == requests = invocations

C6_Witness ==
    /\ invocations = 2
    /\ requests = 2
    /\ Failed
    /\ pc = "exited"

\* C7: in main(), the step that brings a response other than 200 leaves the
\* process exited with main()'s variables and position as they were and no new
\* request, and the exited process takes no further step.
C7_DemoStopsOnFirstFailure ==
    [][/\ pc # "exited"
       /\ (response'.status_code \notin {0, StatusOK}) =>
              (pc' = "exited" /\ main' = main /\ requests' = requests
               /\ returns' = returns)]_vars

C7_Witness ==
    /\ pc = "exited"
    /\ Failed
    /\ main.site = 12
    /\ StepOf(main.site) = 10
    /\ op = "transfer_asset"
    /\ returns = invocations - 1

\* C8 as stated: a failure the transport raises is reported by _send's
\* diagnostic and ends the process the way a response other than 200 does.
C8_TransportFailureReported ==
    exc \in TransportErrors => (pc \in {"exited", "raised"} /\ Len(log) = 1)

\* C8 amended: a failure the transport raises ends the process too, with no
\* value returned and no further step, but as an uncaught exception: _send
\* emits no diagnostic for it, unlike for a response other than 200.
C8_TransportFailureUncaught ==
    /\ [](exc \in TransportErrors =>
            /\ pc = "raised"
            /\ log = <<>>
            /\ ~Answered
            /\ returns = invocations - 1)
    /\ [](Failed => (pc = "exited" /\ Len(log) = 1))
    /\ [][pc # "raised"]_vars

C8_Witness ==
    /\ pc = "raised"
    /\ exc = "Timeout"
    /\ invocations = 2
    /\ log = <<>>

\* C9: a domain operation given a 200 response, with an empty body or a JSON
\* body, returns a value without raising an error or terminating.
C9_OnlyNon200Fails ==
    (/\ op \in DomainOps
     /\ main.site = 0
     /\ response.status_code = StatusOK
     /\ (response.text = <<>> \/ JsonValid(response.text))) =>
        (pc = "idle" /\ exc = "" /\ returns = invocations)

\* the owners, new_owners and new_signer_public_id values of the last request body
OwnerValues ==
    IF request.json.kind # "dict" THEN {}
    ELSE LET b == request.json.items IN
         UNION {IF f \in DOMAIN b THEN {b[f].elems[i] : i \in DOMAIN b[f].elems} ELSE {}
                  : f \in {"owners", "new_owners"}}
         \cup (IF "new_signer_public_id" \in DOMAIN b THEN {b["new_signer_public_id"]} ELSE {})

\* C10: in main(), no request body names a private id as an owner: every
\* owners, new_owners and new_signer_public_id value is a public id that
\* get_public_id returned.
C10_OnlyPublicIdsInBodies ==
    main.site > 0 =>
        \A v \in OwnerValues :
            /\ v \in {main.public_id, main.second_public_id}
            /\ v.kind = "str" => v.str \notin PrivTokens \cup {Format(main.privateid)}

=============================================================================
